---- MODULE Spec2Model ----
(***************************************************************************)
(* Model of the core of data_tracker.py: location filter, forward fill of  *)
(* the key metrics, latest-row snapshot, derived rates and the five        *)
(* "key insight" ranking queries.                                          *)
(*                                                                         *)
(* A DataFrame is a sequence of rows in row order; a row is a record whose *)
(* fields are the columns plus "index", the pandas index label of the row  *)
(* (read_csv gives a RangeIndex, so labels are unique and are kept by      *)
(* boolean filtering and by .loc).  A cell is a float: a record [n, d]     *)
(* read as the fraction n/d, with d = 0 for the IEEE specials:             *)
(*   NaN = 0/0,  +inf = 1/0,  -inf = -1/0.                                 *)
(* Finite values are kept in lowest terms with d > 0, so that equality of  *)
(* records is equality of numbers.  Dates are day numbers and are always   *)
(* present (line 78 has converted them).                                   *)
(***************************************************************************)
EXTENDS Integers, Sequences, FiniteSets, TLC

VARIABLES pc, df, df_countries, LATEST_DF, avg_new_cases, insights, diagnostics

vars == <<pc, df, df_countries, LATEST_DF, avg_new_cases, insights, diagnostics>>

---------------------------------------------------------------------------
(* Bounds of the explored inputs *)

MaxRows == 3

MaxVal == 2

(* Program constants *)

WindowDays == 30

countries_of_interest ==
  <<"United States", "India", "Brazil", "Kenya", "United Kingdom", "Germany">>

key_metrics ==
  <<"total_cases", "new_cases", "total_deaths", "new_deaths",
    "people_vaccinated", "people_fully_vaccinated">>

(* Order of the location strings under Python's string comparison, which   *)
(* is the order in which groupby (sort=True) lists its groups.             *)
LocationOrder ==
  <<"Brazil", "France", "Germany", "India", "Kenya", "United Kingdom",
    "United States">>

---------------------------------------------------------------------------
(* Floats *)

Abs(x) == IF x < 0 THEN -x ELSE x

RECURSIVE GCD(_, _)
GCD(a, b) == IF b = 0 THEN a ELSE GCD(b, a % b)

NaN == [n |-> 0, d |-> 0]

(* the float n/d, for any integers n and d *)
Frac(n, d) ==
  IF d = 0
  THEN [n |-> IF n > 0 THEN 1 ELSE IF n < 0 THEN -1 ELSE 0, d |-> 0]
  ELSE LET s == IF d < 0 THEN -1 ELSE 1
           g == GCD(Abs(n), Abs(d))
       IN  [n |-> (s * n) \div g, d |-> (s * d) \div g]

F(v) == Frac(v, 1)

isna(x) == x.n = 0 /\ x.d = 0

notna(x) == ~isna(x)

fillna(x, v) == IF isna(x) THEN v ELSE x

(* x > y on floats; any comparison with NaN is false *)
FGreater(x, y) == notna(x) /\ notna(y) /\ x.n * y.d > y.n * x.d

(* x / y on floats (finite operands or NaN) *)
FDiv(x, y) == IF isna(x) \/ isna(y) THEN NaN ELSE Frac(x.n * y.d, x.d * y.n)

(* x * k on floats, k an integer *)
FTimes(x, k) == IF x.d = 0 THEN x ELSE Frac(x.n * k, x.d)

np_where(cond, a, b) == IF cond THEN a ELSE b

---------------------------------------------------------------------------
(* Sequences and sets *)

SetMax(S) == CHOOSE m \in S : \A k \in S : k <= m

Range(s) == {s[i] : i \in 1..Len(s)}

RECURSIVE SumOver(_, _)
SumOver(f, S) ==
  IF S = {} THEN 0
  ELSE LET k == CHOOSE j \in S : TRUE IN f[k] + SumOver(f, S \ {k})

(* the rows of d at the positions of S, in row order *)
RowsAt(d, S) ==
  LET Test(r) == \E i \in S : d[i] = r
  IN  SelectSeq(d, Test)

(* df.empty *)
empty(d) == Len(d) = 0

(* the group keys of d.groupby('location'), in sorted order *)
GroupKeys(d) ==
  LET Present(l) == \E i \in 1..Len(d) : d[i].location = l
  IN  SelectSeq(LocationOrder, Present)

---------------------------------------------------------------------------
(* The explored datasets *)

InputLocations == {"Brazil", "India"}

OtherLocation == "France"

InputDates == {1, 2, WindowDays + 2}

OtherDate == WindowDays + 3

Values == {NaN} \cup {F(v) : v \in -1..MaxVal}

MkRow(loc, date, cases, newc, deaths, vacc, pop, dpm) ==
  [index |-> 0, location |-> loc, date |-> date,
   total_cases |-> cases, new_cases |-> newc,
   total_deaths |-> deaths, new_deaths |-> newc,
   people_vaccinated |-> vacc, people_fully_vaccinated |-> vacc,
   population |-> pop, total_deaths_per_million |-> dpm]

(* read_csv numbers the rows 0, 1, 2, ... *)
RangeIndex(rows) == [i \in 1..Len(rows) |-> [rows[i] EXCEPT !.index = i - 1]]

(* a row of a time series: every metric of the row is missing, or every     *)
(* metric holds the day number of the row                                   *)
SeriesRow(l, t, present) ==
  LET v == IF present THEN F(t) ELSE NaN
  IN  MkRow(l, t, v, v, v, v, v, v)

SeriesRows ==
  {SeriesRow(l, t, present) : l \in InputLocations, t \in InputDates, present \in BOOLEAN}
  \cup {SeriesRow(OtherLocation, OtherDate, TRUE)}

(* rows with every numerator and denominator of one derived rate, the      *)
(* other rate being 1/2                                                    *)
RateRows(l) ==
  {MkRow(l, 1, den, NaN, num, F(1), F(2), NaN) : num \in Values, den \in Values}
  \cup {MkRow(l, 1, F(2), NaN, F(1), num, den, NaN) : num \in Values, den \in Values}

(* rows with independent ranked fields *)
RankRows(l) ==
  {MkRow(l, 1, cases, newc, NaN, NaN, F(1), dpm) :
     cases \in {NaN, F(0), F(MaxVal)}, newc \in {NaN, F(0), F(MaxVal)},
     dpm \in {NaN, F(0), F(MaxVal)}}

Datasets ==
  UNION {[1..k -> SeriesRows] : k \in 0..MaxRows}
  \cup {<<a>> : a \in RateRows("India")}
  \cup {<<a, b>> : a \in RateRows("India"), b \in RateRows("Brazil")}
  \cup {<<a, b>> : a \in RankRows("India"), b \in RankRows("Brazil")}

---------------------------------------------------------------------------
(* Section 3: data cleaning *)

(* variant: the isin mask is not applied *)
LocationFilter_unfiltered(d) == d

(* line 92: df[df['location'].isin(countries_of_interest)].copy() *)
LocationFilter(d) ==
  LET isin(r) == r.location \in Range(countries_of_interest)
  IN  SelectSeq(d, isin)

(* variant: x.ffill(limit=1), a missing cell takes the raw cell of the row  *)
(* just before it in its group                                              *)
ffill_limit1(d, metric, i) ==
  LET prior == {j \in 1..(i - 1) : d[j].location = d[i].location}
  IN  IF notna(d[i][metric]) \/ prior = {}
      THEN d[i][metric]
      ELSE d[SetMax(prior)][metric]

(* x.ffill() at row i of the group of d[i].location: the value of the      *)
(* nearest earlier row of the group that has one                           *)
ffill(d, metric, i) ==
  LET prior == {j \in 1..(i - 1) :
                  d[j].location = d[i].location /\ notna(d[j][metric])}
  IN  IF notna(d[i][metric]) \/ prior = {}
      THEN d[i][metric]
      ELSE d[SetMax(prior)][metric]

(* line 106 for one metric *)
FillMetric(d, metric) ==
  [i \in 1..Len(d) |-> [d[i] EXCEPT ![metric] = ffill(d, metric, i)]]

(* lines 104-106: the loop over key_metrics, from metric number k on *)
RECURSIVE FillFrom(_, _)
FillFrom(d, k) ==
  IF k > Len(key_metrics) THEN d ELSE FillFrom(FillMetric(d, key_metrics[k]), k + 1)

GapFiller(d) == FillFrom(d, 1)

(* variant: the last row of the group, as groupby('location').tail(1) *)
DateIdxmax_tail(d, l) ==
  LET grp == {i \in 1..Len(d) : d[i].location = l}
  IN  d[SetMax(grp)].index

(* Series.idxmax() of column date within the group of location l: the      *)
(* index label of the first row holding the maximum                        *)
DateIdxmax(d, l) ==
  LET grp == {i \in 1..Len(d) : d[i].location = l}
      top == SetMax({d[i].date : i \in grp})
      first == CHOOSE i \in grp :
                 /\ d[i].date = top
                 /\ \A j \in grp : d[j].date = top => i <= j
  IN  d[first].index

(* d.loc[label] *)
loc(d, label) == d[CHOOSE i \in 1..Len(d) : d[i].index = label]

(* line 115 *)
SnapshotExtractor(d) ==
  LET keys == GroupKeys(d)
  IN  [k \in 1..Len(keys) |-> loc(d, DateIdxmax(d, keys[k]))]

---------------------------------------------------------------------------
(* Sections 5 and 6: derived rates and key insights *)

(* d[name] = col, col holding one cell per row: adds or replaces column     *)
(* name                                                                    *)
AddColumn(d, name, col) ==
  [i \in 1..Len(d) |-> (name :> col[i]) @@ d[i]]

(* lines 207-212 *)
vax_percentage(r) ==
  fillna(np_where(FGreater(fillna(r.population, F(0)), F(0)),
                  FTimes(FDiv(fillna(r.people_vaccinated, F(0)), r.population), 100),
                  F(0)),
         F(0))

(* variant: the guard is >= 0 instead of > 0 *)
death_rate_ge(r) ==
  fillna(np_where(~FGreater(F(0), fillna(r.total_cases, F(0))),
                  FTimes(FDiv(fillna(r.total_deaths, F(0)), r.total_cases), 100),
                  F(0)),
         F(0))

(* lines 270-275 *)
death_rate(r) ==
  fillna(np_where(FGreater(fillna(r.total_cases, F(0)), F(0)),
                  FTimes(FDiv(fillna(r.total_deaths, F(0)), r.total_cases), 100),
                  F(0)),
         F(0))

(* lines 286-291 *)
vax_rate(r) ==
  fillna(np_where(FGreater(fillna(r.population, F(0)), F(0)),
                  FTimes(FDiv(fillna(r.people_vaccinated, F(0)), r.population), 100),
                  F(0)),
         F(0))

(* d[col].notna().any() *)
any_notna(d, col) == \E i \in 1..Len(d) : notna(d[i][col])

(* variant: the last row holding the largest value *)
idxmax_last(d, col) ==
  LET ok == {i \in 1..Len(d) : notna(d[i][col])}
      last == CHOOSE i \in ok :
                /\ \A j \in ok : ~FGreater(d[j][col], d[i][col])
                /\ \A j \in ok : j > i => FGreater(d[i][col], d[j][col])
  IN  d[last].index

(* d[col].idxmax(): the index label of the first row holding the largest   *)
(* value that is not NaN                                                   *)
idxmax(d, col) ==
  LET ok == {i \in 1..Len(d) : notna(d[i][col])}
      first == CHOOSE i \in ok :
                 /\ \A j \in ok : ~FGreater(d[j][col], d[i][col])
                 /\ \A j \in ok : j < i => FGreater(d[i][col], d[j][col])
  IN  d[first].index

(* Series.mean() of column col over the rows of d at positions S: NaN      *)
(* cells are skipped, and the mean of no cells is NaN                      *)
mean(d, col, S) ==
  LET ok == {i \in S : notna(d[i][col])}
      num == [i \in ok |-> d[i][col].n]
  IN  IF ok = {} THEN NaN ELSE Frac(SumOver(num, ok), Cardinality(ok))

(* variant: the window ends at the maximum date of each location *)
WindowedAverage_per_location(d) ==
  LET max_date(l) == SetMax({d[i].date : i \in {j \in 1..Len(d) : d[j].location = l}})
      last_month == {i \in 1..Len(d) : d[i].date >= max_date(d[i].location) - WindowDays}
      last_month_df == RowsAt(d, last_month)
      keys == GroupKeys(last_month_df)
      means == [k \in 1..Len(keys) |->
                  [index |-> keys[k], location |-> keys[k],
                   value |-> mean(d, "new_cases",
                                  {i \in last_month : d[i].location = keys[k]})]]
      HasValue(e) == notna(e.value)
  IN  SelectSeq(means, HasValue)

(* lines 302-306: a Series indexed by location, here a sequence of rows    *)
(* [index, location, value] whose index label is the location              *)
WindowedAverage(d) ==
  LET max_date == SetMax({d[i].date : i \in 1..Len(d)})
      last_month == {i \in 1..Len(d) : d[i].date >= max_date - WindowDays}
      last_month_df == RowsAt(d, last_month)
      keys == GroupKeys(last_month_df)
      means == [k \in 1..Len(keys) |->
                  [index |-> keys[k], location |-> keys[k],
                   value |-> mean(d, "new_cases",
                                  {i \in last_month : d[i].location = keys[k]})]]
      HasValue(e) == notna(e.value)
  IN  SelectSeq(means, HasValue)

Insight(q, l, v) == [query |-> q, location |-> l, value |-> v]

Diagnostic(q, why) == [query |-> q, reason |-> why]

---------------------------------------------------------------------------
(* Actions *)

Init ==
  /\ pc = "filter"
  /\ df \in {RangeIndex(rows) : rows \in Datasets}
  /\ df_countries = <<>>
  /\ LATEST_DF = <<>>
  /\ avg_new_cases = <<>>
  /\ insights = <<>>
  /\ diagnostics = <<>>

(* lines 91-100 *)
FilterStep ==
  /\ pc = "filter"
  /\ df_countries' = LocationFilter(df)
  /\ pc' = "fill"
  /\ UNCHANGED <<df, LATEST_DF, avg_new_cases, insights, diagnostics>>

(* lines 102-108 *)
FillStep ==
  /\ pc = "fill"
  /\ df_countries' = GapFiller(df_countries)
  /\ pc' = "snapshot"
  /\ UNCHANGED <<df, LATEST_DF, avg_new_cases, insights, diagnostics>>

(* lines 112-126 *)
SnapshotStep ==
  /\ pc = "snapshot"
  /\ IF ~empty(df_countries)
     THEN /\ LATEST_DF' = SnapshotExtractor(df_countries)
          /\ UNCHANGED diagnostics
     ELSE /\ LATEST_DF' = <<>>
          /\ diagnostics' = Append(diagnostics, Diagnostic(0, "df_countries is empty"))
  /\ pc' = "vax"
  /\ UNCHANGED <<df, df_countries, avg_new_cases, insights>>

(* variant: the vaccination columns of the snapshot are zero-filled in      *)
(* place before the rate is taken                                           *)
VaccinationStep_inplace ==
  /\ pc = "vax"
  /\ IF ~empty(LATEST_DF)
     THEN LET filled == [k \in 1..Len(LATEST_DF) |->
                           [LATEST_DF[k] EXCEPT
                              !.people_vaccinated = fillna(@, F(0)),
                              !.population = fillna(@, F(0))]]
          IN  /\ LATEST_DF' = AddColumn(filled, "vax_percentage",
                                        [k \in 1..Len(filled) |-> vax_percentage(filled[k])])
              /\ UNCHANGED diagnostics
     ELSE /\ UNCHANGED LATEST_DF
          /\ diagnostics' = Append(diagnostics, Diagnostic(0, "skipping vaccination rate"))
  /\ pc' = "insights"
  /\ UNCHANGED <<df, df_countries, avg_new_cases, insights>>

(* lines 195-253, without the plots *)
VaccinationStep ==
  /\ pc = "vax"
  /\ IF ~empty(LATEST_DF)
     THEN /\ LATEST_DF' = AddColumn(LATEST_DF, "vax_percentage",
                                  [k \in 1..Len(LATEST_DF) |-> vax_percentage(LATEST_DF[k])])
          /\ UNCHANGED diagnostics
     ELSE /\ UNCHANGED LATEST_DF
          /\ diagnostics' = Append(diagnostics, Diagnostic(0, "skipping vaccination rate"))
  /\ pc' = "insights"
  /\ UNCHANGED <<df, df_countries, avg_new_cases, insights>>

(* lines 259-260, 326-329 *)
InsightsStep ==
  /\ pc = "insights"
  /\ IF ~empty(LATEST_DF)
     THEN /\ pc' = "q1"
          /\ UNCHANGED diagnostics
     ELSE /\ pc' = "done"
          /\ diagnostics' = Append(diagnostics, Diagnostic(0, "LATEST_DF is empty"))
  /\ UNCHANGED <<df, df_countries, LATEST_DF, avg_new_cases, insights>>

(* lines 261-266 *)
Query1 ==
  /\ pc = "q1"
  /\ IF any_notna(LATEST_DF, "total_cases")
     THEN LET top == loc(LATEST_DF, idxmax(LATEST_DF, "total_cases"))
          IN  /\ insights' = Append(insights, Insight(1, top.location, top.total_cases))
              /\ UNCHANGED diagnostics
     ELSE /\ diagnostics' = Append(diagnostics, Diagnostic(1, "missing or all NaN"))
          /\ UNCHANGED insights
  /\ pc' = "q2"
  /\ UNCHANGED <<df, df_countries, LATEST_DF, avg_new_cases>>

(* lines 268-282 *)
Query2 ==
  /\ pc = "q2"
  /\ LET rated == AddColumn(LATEST_DF, "death_rate",
                        [k \in 1..Len(LATEST_DF) |-> death_rate(LATEST_DF[k])])
     IN  /\ LATEST_DF' = rated
         /\ IF any_notna(rated, "death_rate")
            THEN LET top == loc(rated, idxmax(rated, "death_rate"))
                 IN  /\ insights' = Append(insights, Insight(2, top.location, top.death_rate))
                     /\ UNCHANGED diagnostics
            ELSE /\ diagnostics' = Append(diagnostics, Diagnostic(2, "all values are NaN"))
                 /\ UNCHANGED insights
  /\ pc' = "q3"
  /\ UNCHANGED <<df, df_countries, avg_new_cases>>

(* lines 284-298 *)
Query3 ==
  /\ pc = "q3"
  /\ LET rated == AddColumn(LATEST_DF, "vax_rate",
                        [k \in 1..Len(LATEST_DF) |-> vax_rate(LATEST_DF[k])])
     IN  /\ LATEST_DF' = rated
         /\ IF any_notna(rated, "vax_rate")
            THEN LET top == loc(rated, idxmax(rated, "vax_rate"))
                 IN  /\ insights' = Append(insights, Insight(3, top.location, top.vax_rate))
                     /\ UNCHANGED diagnostics
            ELSE /\ diagnostics' = Append(diagnostics, Diagnostic(3, "all values are NaN"))
                 /\ UNCHANGED insights
  /\ pc' = "q4"
  /\ UNCHANGED <<df, df_countries, avg_new_cases>>

(* lines 300-318; df_countries is not empty here, so max_date is a date and *)
(* last_month_df holds at least the row of max_date                         *)
Query4 ==
  /\ pc = "q4"
  /\ LET avg == WindowedAverage(df_countries)
     IN  /\ avg_new_cases' = avg
         /\ IF ~empty(avg)
            THEN LET top == CHOOSE i \in 1..Len(avg) : avg[i].location = idxmax(avg, "value")
                 IN  /\ insights' = Append(insights, Insight(4, avg[top].location, avg[top].value))
                     /\ UNCHANGED diagnostics
            ELSE /\ diagnostics' = Append(diagnostics, Diagnostic(4, "no valid mean data"))
                 /\ UNCHANGED insights
  /\ pc' = "q5"
  /\ UNCHANGED <<df, df_countries, LATEST_DF>>

(* lines 320-329 *)
Query5 ==
  /\ pc = "q5"
  /\ IF any_notna(LATEST_DF, "total_deaths_per_million")
     THEN LET top == loc(LATEST_DF, idxmax(LATEST_DF, "total_deaths_per_million"))
          IN  /\ insights' = Append(insights, Insight(5, top.location, top.total_deaths_per_million))
              /\ UNCHANGED diagnostics
     ELSE /\ diagnostics' = Append(diagnostics, Diagnostic(5, "missing or all NaN"))
          /\ UNCHANGED insights
  /\ pc' = "done"
  /\ UNCHANGED <<df, df_countries, LATEST_DF, avg_new_cases>>

Next ==
  \/ FilterStep
  \/ FillStep
  \/ SnapshotStep
  \/ VaccinationStep
  \/ InsightsStep
  \/ Query1
  \/ Query2
  \/ Query3
  \/ Query4
  \/ Query5

Spec == Init /\ [][Next]_vars

---------------------------------------------------------------------------
(* Properties *)

Filled == pc \notin {"filter", "fill"}

Snapped == pc \notin {"filter", "fill", "snapshot"}

Ranked(q) == ~empty(LATEST_DF) /\
  \/ pc = "done"
  \/ \E k \in (q + 1)..5 : pc = [i \in 1..5 |-> <<"q1", "q2", "q3", "q4", "q5">>[i]][k]

Metrics == Range(key_metrics)

Locations(d) == {d[i].location : i \in 1..Len(d)}

DerivedFields == {"vax_percentage", "death_rate", "vax_rate"}

UniqueDates(d) ==
  \A i, j \in 1..Len(d) :
    (d[i].location = d[j].location /\ d[i].date = d[j].date) => i = j

(* C1: after the fill, every key metric of every record holds the raw value *)
(* of the latest-dated record of the same location, at a date not after its *)
(* own, that has a raw value, and is missing if there is no such record,    *)
(* whatever the order of the rows (the dates of a location being distinct). *)
C1_FillCausality ==
  (Filled /\ UniqueDates(LocationFilter(df))) =>
    LET raw == LocationFilter(df)
    IN  \A i \in 1..Len(df_countries) : \A m \in Metrics :
          LET cand == {j \in 1..Len(raw) :
                         /\ raw[j].location = raw[i].location
                         /\ raw[j].date <= raw[i].date
                         /\ notna(raw[j][m])}
          IN  IF cand = {}
              THEN isna(df_countries[i][m])
              ELSE \E j \in cand :
                     /\ \A k \in cand : raw[k].date <= raw[j].date
                     /\ df_countries[i][m] = raw[j][m]

(* the ratio num/den x 100 of the safe-division policy, a missing numerator *)
(* counting as 0                                                            *)
SafeRatio(num, den) ==
  IF isna(den) \/ den.n <= 0
  THEN F(0)
  ELSE Frac(100 * fillna(num, F(0)).n * den.d, fillna(num, F(0)).d * den.n)

(* C2: once computed, death_rate and vax_rate of every snapshot entry are 0 *)
(* when the denominator is missing, zero or negative, and ratio x 100 when  *)
(* the denominator is present and positive.                                 *)
C2_SafeDivision ==
  /\ Ranked(2) => \A k \in 1..Len(LATEST_DF) :
       /\ "death_rate" \in DOMAIN LATEST_DF[k]
       /\ LATEST_DF[k].death_rate =
            SafeRatio(LATEST_DF[k].total_deaths, LATEST_DF[k].total_cases)
  /\ Ranked(3) => \A k \in 1..Len(LATEST_DF) :
       /\ "vax_rate" \in DOMAIN LATEST_DF[k]
       /\ LATEST_DF[k].vax_rate =
            SafeRatio(LATEST_DF[k].people_vaccinated, LATEST_DF[k].population)

C2_Witness ==
  /\ pc = "done"
  /\ \E k \in 1..Len(LATEST_DF) :
       /\ notna(LATEST_DF[k].total_cases) /\ LATEST_DF[k].total_cases.n <= 0
       /\ LATEST_DF[k].total_deaths.n > 0
       /\ LATEST_DF[k].death_rate = F(0)
  /\ \E k \in 1..Len(LATEST_DF) :
       /\ LATEST_DF[k].population = F(2)
       /\ LATEST_DF[k].people_vaccinated = F(1)
       /\ LATEST_DF[k].vax_rate = F(50)

(* C3: every derived rate of every snapshot entry is a finite number that   *)
(* is not negative.                                                         *)
C3_RateRange ==
  \A k \in 1..Len(LATEST_DF) : \A f \in DerivedFields \cap DOMAIN LATEST_DF[k] :
    /\ LATEST_DF[k][f].d > 0
    /\ LATEST_DF[k][f].n >= 0

(* C4: the snapshot has exactly one entry for every location of the         *)
(* filtered dataset, that entry is a record of the location at the          *)
(* location's maximum date, and no entry belongs to another location.       *)
C4_SnapshotCorrectness ==
  Snapped =>
    /\ \A l \in Locations(df_countries) :
         /\ Cardinality({k \in 1..Len(LATEST_DF) : LATEST_DF[k].location = l}) = 1
         /\ \A k \in 1..Len(LATEST_DF) : LATEST_DF[k].location = l =>
              /\ \E i \in 1..Len(df_countries) :
                   \A f \in DOMAIN df_countries[i] : LATEST_DF[k][f] = df_countries[i][f]
              /\ \A i \in 1..Len(df_countries) :
                   df_countries[i].location = l => df_countries[i].date <= LATEST_DF[k].date
    /\ \A k \in 1..Len(LATEST_DF) : LATEST_DF[k].location \in Locations(df_countries)

C4_Witness ==
  /\ pc = "done"
  /\ Len(LATEST_DF) = 2
  /\ \E i, j \in 1..Len(df_countries) :
       /\ i < j
       /\ df_countries[i].location = df_countries[j].location
       /\ df_countries[i].date > df_countries[j].date
       /\ \E k \in 1..Len(LATEST_DF) : LATEST_DF[k].index = df_countries[i].index

(* C5: the windowed mapping has, for every location with a new_cases value  *)
(* inside [max_date - 30, max_date], max_date being the maximum date of the *)
(* whole filtered dataset, the mean of those values, and no entry for any   *)
(* other location.                                                          *)
C5_WindowedAverage ==
  Ranked(4) =>
    LET max_date == SetMax({df_countries[i].date : i \in 1..Len(df_countries)})
        InWindow(l) == {i \in 1..Len(df_countries) :
                          /\ df_countries[i].location = l
                          /\ df_countries[i].date >= max_date - WindowDays
                          /\ df_countries[i].date <= max_date
                          /\ notna(df_countries[i].new_cases)}
        cells(l) == [i \in InWindow(l) |-> df_countries[i].new_cases.n]
        Entries(l) == {k \in 1..Len(avg_new_cases) : avg_new_cases[k].location = l}
    IN  \A l \in Range(LocationOrder) :
          IF InWindow(l) = {}
          THEN Entries(l) = {}
          ELSE /\ Cardinality(Entries(l)) = 1
               /\ \A k \in Entries(l) :
                    /\ avg_new_cases[k].value.d > 0
                    /\ avg_new_cases[k].value.n * Cardinality(InWindow(l))
                         = SumOver(cells(l), InWindow(l)) * avg_new_cases[k].value.d

C5_Witness ==
  /\ pc = "done"
  /\ Len(LATEST_DF) = 2
  /\ Len(avg_new_cases) = 1
  /\ avg_new_cases[1].value = Frac(WindowDays + 4, 2)
  /\ \E i \in 1..Len(df_countries) :
       /\ df_countries[i].location # avg_new_cases[1].location
       /\ notna(df_countries[i].new_cases)

Pos(l) == CHOOSE i \in 1..Len(LocationOrder) : LocationOrder[i] = l

(* insight ins names the first location, in location order, among the      *)
(* entries of d that hold the largest value of column col                  *)
FirstMax(ins, d, col) ==
  \E k \in 1..Len(d) :
    /\ d[k].location = ins.location
    /\ notna(d[k][col])
    /\ d[k][col] = ins.value
    /\ \A j \in 1..Len(d) : notna(d[j][col]) =>
         /\ ~FGreater(d[j][col], ins.value)
         /\ d[j][col] = ins.value => Pos(d[k].location) <= Pos(d[j].location)

QueryColumn ==
  <<"total_cases", "death_rate", "vax_rate", "value", "total_deaths_per_million">>

QueryEntries(q) == IF q = 4 THEN avg_new_cases ELSE LATEST_DF

(* C6: every insight names a location whose value is the maximum over the  *)
(* eligible entries of its query, the first such location in location      *)
(* order when several tie, and the insights are listed in query order.     *)
C6_InsightTieBreak ==
  pc = "done" =>
    /\ \A i \in 1..Len(insights) :
         FirstMax(insights[i], QueryEntries(insights[i].query), QueryColumn[insights[i].query])
    /\ \A i, j \in 1..Len(insights) : i < j => insights[i].query < insights[j].query

C6_Witness ==
  /\ pc = "done"
  /\ Len(LATEST_DF) = 2
  /\ df_countries[1].location = "India"
  /\ LATEST_DF[1].total_cases = LATEST_DF[2].total_cases
  /\ LATEST_DF[1].death_rate = F(0) /\ LATEST_DF[2].death_rate = F(0)
  /\ Len(avg_new_cases) = 2 /\ avg_new_cases[1].value = avg_new_cases[2].value
  /\ \E i \in 1..Len(insights) : insights[i].query = 1 /\ insights[i].location = "Brazil"
  /\ \E i \in 1..Len(insights) : insights[i].query = 2 /\ insights[i].location = "Brazil"
  /\ \E i \in 1..Len(insights) : insights[i].query = 4 /\ insights[i].location = "Brazil"

(* the fields query q requires *)
RequiredFields(q) ==
  <<{"total_cases"}, {"total_deaths", "total_cases"}, {"people_vaccinated", "population"},
    {"value"}, {"total_deaths_per_million"}>>[q]

AllMissing(q) ==
  \A k \in 1..Len(QueryEntries(q)) : \A f \in RequiredFields(q) : isna(QueryEntries(q)[k][f])

HasInsight(q) == \E i \in 1..Len(insights) : insights[i].query = q

HasDiagnostic(q) == \E i \in 1..Len(diagnostics) : diagnostics[i].query = q

(* C7: on a snapshot that is not empty, a query whose required fields are   *)
(* missing in every entry gives a diagnostic and no insight, and each of    *)
(* the five queries gives one or the other.                                 *)
C7_EmptyGroupSoftFailure ==
  (pc = "done" /\ ~empty(LATEST_DF)) =>
    \A q \in 1..5 :
      /\ HasInsight(q) # HasDiagnostic(q)
      /\ AllMissing(q) => (~HasInsight(q) /\ HasDiagnostic(q))

C9_FillIdempotent ==
  Filled => GapFiller(df_countries) = df_countries

C9_Witness ==
  /\ pc = "snapshot"
  /\ Len(df_countries) = 3
  /\ df_countries[1].location = df_countries[3].location
  /\ df_countries[2].location = df_countries[3].location
  /\ isna(LocationFilter(df)[2].total_cases)
  /\ isna(LocationFilter(df)[3].total_cases)
  /\ notna(df_countries[3].total_cases)

(* C10: no step after the fill changes the filled dataset, and no step      *)
(* after the snapshot extraction changes the entries of the snapshot other  *)
(* than by adding derived-rate fields.                                      *)
C10_StageIsolation ==
  [][/\ Filled => df_countries' = df_countries
     /\ Snapped =>
          /\ Len(LATEST_DF') = Len(LATEST_DF)
          /\ \A k \in 1..Len(LATEST_DF) :
               /\ DOMAIN LATEST_DF[k] \subseteq DOMAIN LATEST_DF'[k]
               /\ DOMAIN LATEST_DF'[k] \subseteq DOMAIN LATEST_DF[k] \cup DerivedFields
               /\ \A f \in DOMAIN LATEST_DF[k] : LATEST_DF'[k][f] = LATEST_DF[k][f]]_vars

C10_Witness ==
  /\ pc = "done"
  /\ Len(LATEST_DF) = 2
  /\ \A k \in 1..Len(LATEST_DF) : DerivedFields \subseteq DOMAIN LATEST_DF[k]
  /\ \E k \in 1..Len(LATEST_DF) : isna(LATEST_DF[k].people_vaccinated)
  /\ df_countries # LocationFilter(df)

====
